---- MODULE Spec2Model ----
(***************************************************************************)
(* A model of ProjectBuildCache (webpack.config.ts, lines 95-413): the     *)
(* derivation of the cache id from the dependency closure, and the restore *)
(* and store protocols over the local and the cloud build cache.           *)
(*                                                                         *)
(* Strings are sequences of character codes, so that Array.sort and the    *)
(* concatenation fed to the hash are computed as the code computes them.   *)
(* The SHA-1 digest is represented by the byte sequence fed to the hash    *)
(* (an ideal, collision-free hash): two cache ids are equal exactly when   *)
(* the sequences fed to hash.update are equal.                             *)
(***************************************************************************)
EXTENDS Integers, Sequences, FiniteSets, TLC

\* ------------------------------------------------------------------ bounds
NumProjects == 3
MaxDeps == 2
NumFolders == 2
MaxLevels == 8
MaxTokens == 2

Projects == 1..NumProjects
Folders == 1..NumFolders

\* ------------------------------------------------- optional values (T | undefined)
None == [defined |-> FALSE, v |-> <<>>]
Some(x) == [defined |-> TRUE, v |-> x]

\* ------------------------------------------------------------ sequences
RECURSIVE Flatten(_)
Flatten(ss) == IF ss = <<>> THEN <<>> ELSE Head(ss) \o Flatten(Tail(ss))

Range(s) == {s[i] : i \in 1..Len(s)}

NoDup(s) == \A i, j \in 1..Len(s) : s[i] = s[j] => i = j

\* All duplicate-free sequences over S of length at most n: the iteration
\* orders of a Set with at most n members.
OrderedSets(S, n) == UNION {{s \in [1..k -> S] : NoDup(s)} : k \in 0..n}

\* ------------------------------------------------------- character codes
LBracket == 91
RBracket == 93
Quote == 34
Comma == 44
hashDelimiter == 124
Slash == 47
Backslash == 92
Dot == 46

\* ------------------------------------------------------------ the project
\* The orchestrator's own project (this._project).
project == 1

\* The state token of a project that has one: "s" followed by a letter that
\* descends as the project number ascends, so that traversal order and sorted
\* order differ.
StateHashOf(p) == <<115, 122 - p>>

\* "build"
command == <<98, 117, 105, 108, 100>>

\* "lib", "dist", "temp", ...
FolderName(f) == IF f = 1 THEN <<108, 105, 98>>
                 ELSE IF f = 2 THEN <<100, 105, 115, 116>>
                 ELSE <<116, 48 + f>>

projectOutputFolderNames == [f \in Folders |-> FolderName(f)]

\* ------------------------------------------------------------------ paths
\* Path.convertToSlashes: every backslash becomes a slash.
ConvertToSlashes(inputPath) ==
  [i \in DOMAIN inputPath |->
     IF inputPath[i] = Backslash THEN Slash ELSE inputPath[i]]

\* The segments of a path between its slashes.
RECURSIVE SplitSlash(_, _, _)
SplitSlash(s, i, segment) ==
  IF i > Len(s) THEN <<segment>>
  ELSE IF s[i] = Slash THEN <<segment>> \o SplitSlash(s, i + 1, <<>>)
  ELSE SplitSlash(s, i + 1, Append(segment, s[i]))

\* path.posix.normalize on the segments: empty and "." segments go, ".."
\* takes the segment before it.
RECURSIVE NormalizeSegments(_, _, _, _)
NormalizeSegments(segments, i, res, allowAboveRoot) ==
  IF i > Len(segments) THEN res
  ELSE IF segments[i] = <<>> \/ segments[i] = <<Dot>>
  THEN NormalizeSegments(segments, i + 1, res, allowAboveRoot)
  ELSE IF segments[i] = <<Dot, Dot>>
  THEN IF res # <<>> /\ res[Len(res)] # <<Dot, Dot>>
       THEN NormalizeSegments(segments, i + 1, SubSeq(res, 1, Len(res) - 1),
                              allowAboveRoot)
       ELSE IF allowAboveRoot
       THEN NormalizeSegments(segments, i + 1, Append(res, segments[i]),
                              allowAboveRoot)
       ELSE NormalizeSegments(segments, i + 1, res, allowAboveRoot)
  ELSE NormalizeSegments(segments, i + 1, Append(res, segments[i]), allowAboveRoot)

RECURSIVE JoinSlash(_)
JoinSlash(segments) ==
  IF segments = <<>> THEN <<>>
  ELSE IF Len(segments) = 1 THEN segments[1]
  ELSE segments[1] \o <<Slash>> \o JoinSlash(Tail(segments))

\* path.posix.normalize.
PosixNormalize(p) ==
  IF p = <<>> THEN <<Dot>>
  ELSE LET isAbsolute == p[1] = Slash
           trailingSeparator == p[Len(p)] = Slash
           normalized == JoinSlash(NormalizeSegments(SplitSlash(p, 1, <<>>), 1,
                                                     <<>>, ~isAbsolute))
       IN IF normalized = <<>>
          THEN (IF isAbsolute THEN <<Slash>>
                ELSE IF trailingSeparator THEN <<Dot, Slash>> ELSE <<Dot>>)
          ELSE (IF isAbsolute THEN <<Slash>> ELSE <<>>) \o normalized
               \o (IF trailingSeparator THEN <<Slash>> ELSE <<>>)

\* path.posix.join of two arguments.
PosixJoin(a, b) ==
  PosixNormalize(IF a = <<>> THEN b
                 ELSE IF b = <<>> THEN a
                 ELSE a \o <<Slash>> \o b)

\* String.prototype.startsWith.
StartsWith(s, prefix) ==
  Len(prefix) <= Len(s) /\ SubSeq(s, 1, Len(prefix)) = prefix

\* Variant: the prefix of an output folder without the trailing slash.
OutputFolderPrefixNoSlash(normalizedProjectRelativeFolder, outputFolderName) ==
  PosixJoin(normalizedProjectRelativeFolder, outputFolderName)

\* Line 205: the prefix of the files under an output folder.
OutputFolderPrefix(normalizedProjectRelativeFolder, outputFolderName) ==
  PosixJoin(normalizedProjectRelativeFolder, outputFolderName) \o <<Slash>>

\* Lines 196-227: _validateProject, with the files it names in its warning.
ValidateProject(relativeFolder, folderNames, files) ==
  LET normalizedProjectRelativeFolder == ConvertToSlashes(relativeFolder)
      outputFolders ==
        [i \in DOMAIN folderNames |->
           OutputFolderPrefix(normalizedProjectRelativeFolder, folderNames[i])]
      Matches(file) ==
        Flatten([i \in DOMAIN outputFolders |->
                   IF StartsWith(file, outputFolders[i]) THEN <<file>> ELSE <<>>])
      inputOutputFiles == Flatten([k \in DOMAIN files |-> Matches(files[k])])
  IN [ok |-> Len(inputOutputFiles) = 0, inputOutputFiles |-> inputOutputFiles]

\* Project folders relative to the repository root: "a", "a\b", "a/b".
RelativeFolders == {<<97>>, <<97, Backslash, 98>>, <<97, Slash, 98>>}

\* "a/src/x": a source file of project "a".
SourceFile == <<97, Slash, 115, 114, 99, Slash, 120>>

\* Files the state of a project may be calculated from, as Git names them:
\* "a/lib/x", "a/libs/x", "a/lib", "a/src/x", "a/b/lib/x", "a/b/dist/x",
\* "lib/x" (the output folders are "lib" and "dist").
CandidateFiles ==
  << <<97, Slash>> \o FolderName(1) \o <<Slash, 120>>,
     <<97, Slash>> \o FolderName(1) \o <<115, Slash, 120>>,
     <<97, Slash>> \o FolderName(1),
     SourceFile,
     <<97, Slash, 98, Slash>> \o FolderName(1) \o <<Slash, 120>>,
     <<97, Slash, 98, Slash>> \o FolderName(NumFolders) \o <<Slash, 120>>,
     FolderName(1) \o <<Slash, 120>> >>

\* The files of S in the order of Object.keys.
RECURSIVE FileList(_, _)
FileList(S, k) ==
  IF k > Len(CandidateFiles) THEN <<>>
  ELSE (IF k \in S THEN <<CandidateFiles[k]>> ELSE <<>>) \o FileList(S, k + 1)

\* options.projectBuildDeps: undefined, or the files of the project state.
ProjectBuildDeps ==
  {None} \cup {Some(FileList(S, 1)) : S \in SUBSET (1..Len(CandidateFiles))}

\* ----------------------------------------------------------------- state
VARIABLES
  projectRelativeFolder,       \* project.projectRelativeFolder
  projectBuildDeps,            \* options.projectBuildDeps: Some(files) | None
  localDependencyProjects,     \* project -> iteration order of its dependency Set
  projectStateHash,            \* project -> Some(token) | None (PackageChangeAnalyzer)
  cacheIdCannotBeCalculated,   \* __cacheIdCannotBeCalculated
  cacheId,                     \* __cacheId: Some(id) | None
  sortedProjectStates,         \* the tokens fed to the hash by the last derivation
  hashRequests,                \* getProjectStateHash calls made by the current call
  localStore,                  \* FileSystemBuildCacheProvider contents
  cloudStore,                  \* CloudBuildCacheProviderBase contents
  cloudConfigured,             \* _cloudBuildCacheProvider !== undefined
  isCacheWriteAllowed,         \* _cloudBuildCacheProvider.isCacheWriteAllowed
  disk,                        \* output folder -> "absent" | "built" | "restored"
  pc,                          \* "start" before tryGetProjectBuildCache, "noInstance"
                               \* when it returned undefined, else the position of
                               \* the running public operation
  op,                          \* "none" | "restore" | "set"
  returned,                    \* "none" | "true" | "false" | "rejected"
  cacheEntryBuffer,            \* Some(blob) | None
  foundInLocalCache,
  setLocalCacheEntryPromise,   \* "undefined" | "pending" | "true" | "false"
  setCloudCacheEntryPromise,   \* "undefined" | "pending" | "true" | "false"
  extractTarPromise,           \* "undefined" | "pending" | "true" | "rejected"
  pendingDeletes,              \* deleteFolderAsync calls in flight
  deletedFolders,              \* folders whose deleteFolderAsync resolved in this call
  filteredOutputFolders,       \* folders handed to tar.create
  encounteredTarErrors,
  terminal,                    \* lines written by the current call
  ioLog,                       \* store and file system operations invoked by the current call
  derivations,                 \* two sets of inputs of lines 155-167, or <<>>
  hashUpdates                  \* what hash.update was fed for each of them, or <<>>

envVars == <<projectRelativeFolder, projectBuildDeps, localDependencyProjects,
             projectStateHash, cloudConfigured, isCacheWriteAllowed>>
hashVars == <<derivations, hashUpdates>>
keyVars == <<cacheIdCannotBeCalculated, cacheId, sortedProjectStates>>
storeVars == <<localStore, cloudStore>>
callVars == <<cacheEntryBuffer, foundInLocalCache, setLocalCacheEntryPromise,
              setCloudCacheEntryPromise, extractTarPromise, pendingDeletes,
              deletedFolders, filteredOutputFolders, encounteredTarErrors>>
vars == <<envVars, hashVars, keyVars, storeVars, callVars, hashRequests, disk, pc, op,
          returned, terminal, ioLog>>

\* ------------------------------------------------------- _cacheId getter
\* !projectState: undefined and the empty string are both falsy.
IsFalsy(s) == ~s.defined \/ s.v = <<>>

\* Set.add over an insertion-ordered Set.
SetAdd(s, x) == IF x \in Range(s) THEN s ELSE Append(s, x)

\* Variant: only the dependencies of the project itself are followed.
RECURSIVE AddDirectDependenciesOnly(_, _, _, _)
AddDirectDependenciesOnly(new, dependencies, processed, i) ==
  IF i > Len(dependencies) \/ processed # {project} THEN new
  ELSE AddDirectDependenciesOnly(IF dependencies[i] \in processed THEN new
                                 ELSE SetAdd(new, dependencies[i]),
                                 dependencies, processed, i + 1)

\* Variant: no look at the projects processed so far.
RECURSIVE AddDependenciesUnvisited(_, _, _, _)
AddDependenciesUnvisited(new, dependencies, processed, i) ==
  IF i > Len(dependencies) THEN new
  ELSE AddDependenciesUnvisited(SetAdd(new, dependencies[i]),
                                dependencies, processed, i + 1)

\* Lines 144-148: add the dependencies not processed so far.
RECURSIVE AddDependencies(_, _, _, _)
AddDependencies(new, dependencies, processed, i) ==
  IF i > Len(dependencies) THEN new
  ELSE AddDependencies(IF dependencies[i] \in processed THEN new
                       ELSE SetAdd(new, dependencies[i]),
                       dependencies, processed, i + 1)

\* Lines 132-150: one pass of the for loop over projectsToProcess.
RECURSIVE ProcessLevel(_, _, _, _, _, _, _, _)
ProcessLevel(deps, hashes, toProcess, i, processed, states, requests, new) ==
  IF i > Len(toProcess)
  THEN [ok |-> TRUE, processed |-> processed, states |-> states,
        requests |-> requests, new |-> new]
  ELSE LET p == toProcess[i]
           processed2 == processed \cup {p}
           projectState == hashes[p]
           requests2 == Append(requests, p)
       IN IF IsFalsy(projectState)
          THEN [ok |-> FALSE, processed |-> processed2, states |-> states,
                requests |-> requests2, new |-> new]
          ELSE ProcessLevel(deps, hashes, toProcess, i + 1, processed2,
                            Append(states, projectState.v), requests2,
                            AddDependencies(new, deps[p], processed2, 1))

\* Lines 125-153: the while loop. The model follows it for MaxLevels
\* iterations; ended tells whether the loop left by then.
RECURSIVE Traverse(_, _, _, _, _, _, _)
Traverse(deps, hashes, toProcess, processed, states, requests, level) ==
  IF Len(toProcess) = 0
  THEN [ok |-> TRUE, ended |-> TRUE, states |-> states, requests |-> requests]
  ELSE IF level >= MaxLevels
  THEN [ok |-> FALSE, ended |-> FALSE, states |-> states, requests |-> requests]
  ELSE LET r == ProcessLevel(deps, hashes, toProcess, 1, processed, states,
                             requests, <<>>)
       IN IF ~r.ok
          THEN [ok |-> FALSE, ended |-> TRUE, states |-> r.states,
                requests |-> r.requests]
          ELSE Traverse(deps, hashes, r.new, r.processed, r.states, r.requests,
                        level + 1)

\* Array.prototype.sort without a comparator: ascending by code units.
RECURSIVE LexLess(_, _)
LexLess(a, b) ==
  IF a = <<>> THEN b # <<>>
  ELSE IF b = <<>> THEN FALSE
  ELSE IF Head(a) # Head(b) THEN Head(a) < Head(b)
  ELSE LexLess(Tail(a), Tail(b))

RECURSIVE Insert(_, _)
Insert(x, s) ==
  IF s = <<>> THEN <<x>>
  ELSE IF LexLess(x, Head(s)) THEN <<x>> \o s
  ELSE <<Head(s)>> \o Insert(x, Tail(s))

RECURSIVE Sort(_)
Sort(s) == IF s = <<>> THEN <<>> ELSE Insert(Head(s), Sort(Tail(s)))

\* JSON.stringify of an array of strings (names without characters to escape).
RECURSIVE JoinQuoted(_, _)
JoinQuoted(names, i) ==
  IF i > Len(names) THEN <<>>
  ELSE (IF i > 1 THEN <<Comma>> ELSE <<>>) \o <<Quote>> \o names[i] \o <<Quote>>
       \o JoinQuoted(names, i + 1)

JSONStringify(names) == <<LBracket>> \o JoinQuoted(names, 1) \o <<RBracket>>

\* Variant: no delimiter after a state token.
HashInputNoTokenDelimiter(folderNames, cmd, sortedStates) ==
  JSONStringify(folderNames) \o <<hashDelimiter>> \o cmd \o <<hashDelimiter>>
  \o Flatten([i \in 1..Len(sortedStates) |-> sortedStates[i]])

\* Lines 156-167: the sequence of hash.update calls, concatenated.
HashInput(folderNames, cmd, sortedStates) ==
  JSONStringify(folderNames) \o <<hashDelimiter>> \o cmd \o <<hashDelimiter>>
  \o Flatten([i \in 1..Len(sortedStates) |-> sortedStates[i] \o <<hashDelimiter>>])

\* Lines 125-167: the derivation, for fields that hold no cache id yet.
DeriveCacheId(deps, hashes) ==
  LET t == Traverse(deps, hashes, <<project>>, {}, <<>>, <<>>, 0)
      sorted == Sort(t.states)
  IN IF ~t.ok
     THEN [id |-> None, cannot |-> TRUE, states |-> <<>>, requests |-> t.requests,
           ended |-> t.ended]
     ELSE [id |-> Some(HashInput(projectOutputFolderNames, command, sorted)),
           cannot |-> FALSE, states |-> sorted, requests |-> t.requests,
           ended |-> t.ended]

\* Variant: the getter derives the id on every read.
CacheIdGetterRecomputing(cannot, id, deps, hashes) ==
  LET d == DeriveCacheId(deps, hashes)
  IN [id |-> d.id, cannot |-> d.cannot, memo |-> FALSE, states |-> d.states,
      requests |-> d.requests]

\* Lines 121-171: the getter, from the two fields.
CacheIdGetter(cannot, id, deps, hashes) ==
  IF cannot
  THEN [id |-> None, cannot |-> cannot, memo |-> TRUE, states |-> <<>>, requests |-> <<>>]
  ELSE IF ~id.defined
  THEN LET d == DeriveCacheId(deps, hashes)
       IN [id |-> d.id, cannot |-> d.cannot, memo |-> FALSE, states |-> d.states,
           requests |-> d.requests]
  ELSE [id |-> id, cannot |-> cannot, memo |-> TRUE, states |-> <<>>, requests |-> <<>>]

\* ------------------------------------------------------------ the stores
\* tryGetCacheEntryBufferByIdAsync on a store holding at most one entry per id.
StoreGet(store, id) ==
  IF \E e \in store : e.id = id
  THEN Some((CHOOSE e \in store : e.id = id).buffer)
  ELSE None

\* trySetCacheEntryBufferAsync that reported success.
StorePut(store, id, buffer) ==
  {e \in store : e.id # id} \cup {[id |-> id, buffer |-> buffer]}

\* An archive is the list of the output folders it holds, in declared order.
RECURSIVE Ascending(_, _)
Ascending(S, f) ==
  IF f > NumFolders THEN <<>>
  ELSE (IF f \in S THEN <<f>> ELSE <<>>) \o Ascending(S, f + 1)

Blobs == {Ascending(S, 1) : S \in SUBSET Folders}

\* ----------------------------------------------------- terminal and I/O log
Line(severity, text) == [severity |-> severity, text |-> text]

IO(name, id, arg) == [op |-> name, id |-> id, arg |-> arg]

ForEachFolder(name) == [f \in Folders |-> IO(name, <<>>, <<f>>)]

\* ------------------------------------------------------------------- Init
\* Dependency graphs: every project's dependency Set in some iteration order.
Graphs == [Projects -> OrderedSets(Projects, MaxDeps)]

\* project 1 depends on 2, 2 on 3, ...
ChainGraph == [p \in Projects |-> IF p < NumProjects THEN <<p + 1>> ELSE <<>>]

\* The state tokens: any set of projects may have none.
StateHashes ==
  {[p \in Projects |-> IF p \in A THEN None ELSE Some(StateHashOf(p))] :
     A \in SUBSET Projects}

\* The stores hold nothing or one archive under the id the project derives.
InitialStores(deps, hashes) ==
  LET d == DeriveCacheId(deps, hashes)
  IN IF d.id.defined
     THEN {{}} \cup {{[id |-> d.id.v, buffer |-> b]} : b \in Blobs}
     ELSE {{}}

InitCall ==
  /\ cacheIdCannotBeCalculated = FALSE
  /\ cacheId = None
  /\ sortedProjectStates = <<>>
  /\ hashRequests = <<>>
  /\ pc = "idle"
  /\ op = "none"
  /\ returned = "none"
  /\ cacheEntryBuffer = None
  /\ foundInLocalCache = FALSE
  /\ setLocalCacheEntryPromise = "undefined"
  /\ setCloudCacheEntryPromise = "undefined"
  /\ extractTarPromise = "undefined"
  /\ pendingDeletes = {}
  /\ deletedFolders = {}
  /\ filteredOutputFolders = <<>>
  /\ encounteredTarErrors = FALSE
  /\ terminal = <<>>
  /\ ioLog = <<>>

\* Options that tryGetProjectBuildCache made an instance from.
ValidOptions ==
  /\ projectRelativeFolder = <<97>>
  /\ projectBuildDeps = Some(<<SourceFile>>)

\* The protocol: a chain of dependencies, any contents of the stores and of
\* the output folders.
Init ==
  /\ ValidOptions
  /\ derivations = <<>>
  /\ hashUpdates = <<>>
  /\ localDependencyProjects = ChainGraph
  /\ projectStateHash \in StateHashes
  /\ cloudConfigured \in BOOLEAN
  /\ isCacheWriteAllowed \in (IF cloudConfigured THEN BOOLEAN ELSE {FALSE})
  /\ localStore \in InitialStores(localDependencyProjects, projectStateHash)
  /\ cloudStore \in (IF cloudConfigured
                     THEN InitialStores(localDependencyProjects, projectStateHash)
                     ELSE {{}})
  /\ disk \in [Folders -> {"absent", "built"}]
  /\ InitCall

\* The derivation: any dependency graph, empty stores.
InitKey ==
  /\ ValidOptions
  /\ derivations = <<>>
  /\ hashUpdates = <<>>
  /\ localDependencyProjects \in Graphs
  /\ projectStateHash \in StateHashes
  /\ cloudConfigured = FALSE
  /\ isCacheWriteAllowed = FALSE
  /\ localStore = {}
  /\ cloudStore = {}
  /\ disk = [f \in Folders |-> "built"]
  /\ InitCall

\* ----------------------------------------------------- the public operations
\* No operation is running and none of its asynchronous calls is in flight.
Quiescent ==
  /\ pc \in {"idle", "returned"}
  /\ pendingDeletes = {}
  /\ setLocalCacheEntryPromise # "pending"
  /\ setCloudCacheEntryPromise # "pending"
  /\ extractTarPromise # "pending"

\* Lines 230 and 318: const cacheId = this._cacheId.
ReadCacheId(g) ==
  /\ cacheIdCannotBeCalculated' = g.cannot
  /\ cacheId' = IF g.memo THEN cacheId ELSE g.id
  /\ sortedProjectStates' = IF g.memo THEN sortedProjectStates ELSE g.states
  /\ hashRequests' = g.requests

ResetCall ==
  /\ cacheEntryBuffer' = None
  /\ foundInLocalCache' = FALSE
  /\ setLocalCacheEntryPromise' = "undefined"
  /\ setCloudCacheEntryPromise' = "undefined"
  /\ extractTarPromise' = "undefined"
  /\ pendingDeletes' = {}
  /\ deletedFolders' = {}
  /\ filteredOutputFolders' = <<>>
  /\ encounteredTarErrors' = FALSE

\* Variant: the operation goes on without a cache id.
HasCacheIdAlways(id) == TRUE

\* Lines 231 and 319: if (!cacheId) guards the early return.
HasCacheId(id) == id.defined

\* Lines 231-234 and 319-322.
NoCacheId ==
  /\ terminal' = <<Line("warning", "Unable to get cache ID. Ensure Git is installed.")>>
  /\ ioLog' = <<>>
  /\ pc' = "returned"
  /\ returned' = "false"

\* Lines 229-238: up to the await of the local store's get.
TryRestoreFromCacheAsync ==
  /\ Quiescent
  /\ LET g == CacheIdGetter(cacheIdCannotBeCalculated, cacheId,
                            localDependencyProjects, projectStateHash)
     IN /\ ReadCacheId(g)
        /\ IF ~HasCacheId(g.id)
           THEN NoCacheId
           ELSE /\ terminal' = <<>>
                /\ ioLog' = <<IO("localGet", g.id.v, <<>>)>>
                /\ pc' = "localGet"
                /\ returned' = "none"
  /\ op' = "restore"
  /\ ResetCall
  /\ UNCHANGED <<envVars, hashVars, storeVars, disk>>

\* Variant: a cloud hit is never written back to the local store.
BackfillNever(found) == FALSE

\* Variant: every hit is written to the local store.
BackfillAlways(found) == TRUE

\* Line 257: an entry that did not come from the local store is written to it.
BackfillNeeded(found) == ~found

\* Lines 253-274: from the lookup's outcome to the await of the deletions.
AfterLookup(buffer, found) ==
  /\ cacheEntryBuffer' = buffer
  /\ foundInLocalCache' = found
  /\ IF ~buffer.defined
     THEN /\ terminal' = Append(terminal,
               Line("verbose", "This project was not found in the build cache."))
          /\ ioLog' = ioLog
          /\ pc' = "returned"
          /\ returned' = "false"
          /\ UNCHANGED <<setLocalCacheEntryPromise, pendingDeletes>>
     ELSE /\ setLocalCacheEntryPromise' = IF BackfillNeeded(found) THEN "pending"
                                          ELSE "undefined"
          /\ terminal' = terminal
               \o <<Line("info", "Build cache hit."),
                    Line("verbose", "Clearing cached folders")>>
          /\ ioLog' = ioLog
               \o (IF BackfillNeeded(found)
                   THEN <<IO("localSet", cacheId.v, buffer.v)>> ELSE <<>>)
               \o ForEachFolder("delete")
          /\ pendingDeletes' = Folders
          /\ pc' = "deleting"
          /\ UNCHANGED returned

\* Variant: the cloud store is queried whenever one is configured.
ShouldQueryCloudAlways(found) == cloudConfigured

\* Line 240: the cloud store is queried only after a local miss.
ShouldQueryCloud(found) == ~found /\ cloudConfigured

\* Lines 238-251: the local store answers; a failed read is a miss.
LocalGetResolves ==
  /\ pc = "localGet"
  /\ \E buffer \in {StoreGet(localStore, cacheId.v), None} :
       IF ShouldQueryCloud(buffer.defined)
       THEN /\ cacheEntryBuffer' = buffer
            /\ foundInLocalCache' = buffer.defined
            /\ terminal' = Append(terminal, Line("verbose",
                 "This project was not found in the local build cache. Querying the cloud build cache."))
            /\ ioLog' = Append(ioLog, IO("cloudGet", cacheId.v, <<>>))
            /\ pc' = "cloudGet"
            /\ UNCHANGED <<returned, setLocalCacheEntryPromise, pendingDeletes>>
       ELSE AfterLookup(buffer, buffer.defined)
  /\ UNCHANGED <<envVars, hashVars, keyVars, storeVars, hashRequests, disk, op,
                 setCloudCacheEntryPromise, extractTarPromise, deletedFolders,
                 filteredOutputFolders, encounteredTarErrors>>

\* Lines 247-251: the cloud store answers.
CloudGetResolves ==
  /\ pc = "cloudGet"
  /\ \E buffer \in {StoreGet(cloudStore, cacheId.v), None} :
       AfterLookup(buffer, foundInLocalCache)
  /\ UNCHANGED <<envVars, hashVars, keyVars, storeVars, hashRequests, disk, op,
                 setCloudCacheEntryPromise, extractTarPromise, deletedFolders,
                 filteredOutputFolders, encounteredTarErrors>>

\* FileSystem.deleteFolderAsync (line 272) completes for one folder.
DeleteFolderResolves ==
  /\ \E f \in pendingDeletes :
       /\ pendingDeletes' = pendingDeletes \ {f}
       /\ deletedFolders' = deletedFolders \cup {f}
       /\ disk' = [disk EXCEPT ![f] = "absent"]
  /\ UNCHANGED <<envVars, hashVars, keyVars, storeVars, hashRequests, pc, op, returned,
                 cacheEntryBuffer, foundInLocalCache, setLocalCacheEntryPromise,
                 setCloudCacheEntryPromise, extractTarPromise,
                 filteredOutputFolders, encounteredTarErrors, terminal, ioLog>>

\* FileSystem.deleteFolderAsync fails for one folder: Promise.all (line 270)
\* rejects at the first failure and the operation ends by raising.
DeleteFolderRejects ==
  /\ \E f \in pendingDeletes : pendingDeletes' = pendingDeletes \ {f}
  /\ IF pc = "deleting"
     THEN pc' = "returned" /\ returned' = "rejected"
     ELSE UNCHANGED <<pc, returned>>
  /\ UNCHANGED <<envVars, hashVars, keyVars, storeVars, hashRequests, disk, op,
                 cacheEntryBuffer, foundInLocalCache, setLocalCacheEntryPromise,
                 setCloudCacheEntryPromise, extractTarPromise, deletedFolders,
                 filteredOutputFolders, encounteredTarErrors, terminal, ioLog>>

\* Variant: the deletions are started but not awaited.
DeletionsNotAwaited == TRUE

\* Lines 270-274: await Promise.all over the deletions.
DeletionsAwaited == pendingDeletes = {}

\* Lines 276-288: every deletion resolved; the archive is written to tar.extract.
StartExtract ==
  /\ pc = "deleting"
  /\ DeletionsAwaited
  /\ extractTarPromise' = "pending"
  /\ ioLog' = Append(ioLog, IO("unpack", <<>>, cacheEntryBuffer.v))
  /\ pc' = "joining"
  /\ UNCHANGED <<envVars, hashVars, keyVars, storeVars, hashRequests, disk, op, returned,
                 cacheEntryBuffer, foundInLocalCache, setLocalCacheEntryPromise,
                 setCloudCacheEntryPromise, pendingDeletes, deletedFolders,
                 filteredOutputFolders, encounteredTarErrors, terminal>>

\* The first n folders of the archive are written under the project root.
Unpacked(n) ==
  [f \in Folders |->
     IF \E i \in 1..n : cacheEntryBuffer.v[i] = f THEN "restored" ELSE disk[f]]

\* Lines 281-282: the stream reports 'close' or 'drain'.
ExtractResolves ==
  /\ extractTarPromise = "pending"
  /\ extractTarPromise' = "true"
  /\ disk' = Unpacked(Len(cacheEntryBuffer.v))
  /\ UNCHANGED <<envVars, hashVars, keyVars, storeVars, hashRequests, pc, op, returned,
                 cacheEntryBuffer, foundInLocalCache, setLocalCacheEntryPromise,
                 setCloudCacheEntryPromise, pendingDeletes, deletedFolders,
                 filteredOutputFolders, encounteredTarErrors, terminal, ioLog>>

\* Lines 280 and 285: the stream reports 'error', or write throws.
ExtractRejects ==
  /\ extractTarPromise = "pending"
  /\ extractTarPromise' = "rejected"
  /\ \E n \in 0..Len(cacheEntryBuffer.v) : disk' = Unpacked(n)
  /\ UNCHANGED <<envVars, hashVars, keyVars, storeVars, hashRequests, pc, op, returned,
                 cacheEntryBuffer, foundInLocalCache, setLocalCacheEntryPromise,
                 setCloudCacheEntryPromise, pendingDeletes, deletedFolders,
                 filteredOutputFolders, encounteredTarErrors, terminal, ioLog>>

\* The local store's trySetCacheEntryBufferAsync (lines 258 and 366) completes.
LocalSetResolves ==
  /\ setLocalCacheEntryPromise = "pending"
  /\ \E success \in BOOLEAN :
       /\ setLocalCacheEntryPromise' = IF success THEN "true" ELSE "false"
       /\ localStore' = IF success
                        THEN StorePut(localStore, cacheId.v, cacheEntryBuffer.v)
                        ELSE localStore
  /\ UNCHANGED <<envVars, hashVars, keyVars, cloudStore, hashRequests, disk, pc, op,
                 returned, cacheEntryBuffer, foundInLocalCache,
                 setCloudCacheEntryPromise, extractTarPromise, pendingDeletes,
                 deletedFolders, filteredOutputFolders, encounteredTarErrors,
                 terminal, ioLog>>

\* The cloud store's trySetCacheEntryBufferAsync (line 373) completes.
CloudSetResolves ==
  /\ setCloudCacheEntryPromise = "pending"
  /\ \E success \in BOOLEAN :
       /\ setCloudCacheEntryPromise' = IF success THEN "true" ELSE "false"
       /\ cloudStore' = IF success
                        THEN StorePut(cloudStore, cacheId.v, cacheEntryBuffer.v)
                        ELSE cloudStore
  /\ UNCHANGED <<envVars, hashVars, keyVars, localStore, hashRequests, disk, pc, op,
                 returned, cacheEntryBuffer, foundInLocalCache,
                 setLocalCacheEntryPromise, extractTarPromise, pendingDeletes,
                 deletedFolders, filteredOutputFolders, encounteredTarErrors,
                 terminal, ioLog>>

\* Lines 290-300: the awaited extraction rejected, alone or inside Promise.all.
RestoreRejects ==
  /\ pc = "joining"
  /\ extractTarPromise = "rejected"
  /\ pc' = "returned"
  /\ returned' = "rejected"
  /\ UNCHANGED <<envVars, hashVars, keyVars, storeVars, callVars, hashRequests, disk, op,
                 terminal, ioLog>>

\* Variant: the restore also fails when the local write-back failed.
RestoreOutcomeAndBackfill(restoreSuccess, updateLocalCacheSuccess) ==
  [lines |->
     <<IF restoreSuccess
       THEN Line("info", "Successfully restored build output from cache.")
       ELSE Line("warning", "Unable to restore build output from cache.")>>
     \o (IF ~updateLocalCacheSuccess
         THEN <<Line("warning",
                     "An error occurred updating the local cache with the cloud cache data.")>>
         ELSE <<>>),
   value |-> restoreSuccess /\ updateLocalCacheSuccess]

\* Lines 302-314, from the two awaited values.
RestoreOutcome(restoreSuccess, updateLocalCacheSuccess) ==
  [lines |->
     <<IF restoreSuccess
       THEN Line("info", "Successfully restored build output from cache.")
       ELSE Line("warning", "Unable to restore build output from cache.")>>
     \o (IF ~updateLocalCacheSuccess
         THEN <<Line("warning",
                     "An error occurred updating the local cache with the cloud cache data.")>>
         ELSE <<>>),
   value |-> restoreSuccess]

\* Lines 290-314: everything awaited has resolved.
RestoreReturns ==
  /\ pc = "joining"
  /\ extractTarPromise = "true"
  /\ setLocalCacheEntryPromise # "pending"
  /\ LET o == RestoreOutcome(extractTarPromise = "true",
                             setLocalCacheEntryPromise # "false")
     IN /\ terminal' = terminal \o o.lines
        /\ returned' = IF o.value THEN "true" ELSE "false"
  /\ pc' = "returned"
  /\ UNCHANGED <<envVars, hashVars, keyVars, storeVars, callVars, hashRequests, disk, op,
                 ioLog>>

\* Lines 317-329: up to the await of the existence checks.
TrySetCacheEntryAsync ==
  /\ Quiescent
  /\ LET g == CacheIdGetter(cacheIdCannotBeCalculated, cacheId,
                            localDependencyProjects, projectStateHash)
     IN /\ ReadCacheId(g)
        /\ IF ~HasCacheId(g.id)
           THEN NoCacheId
           ELSE /\ terminal' = <<>>
                /\ ioLog' = ForEachFolder("exists")
                /\ pc' = "exists"
                /\ returned' = "none"
  /\ op' = "set"
  /\ ResetCall
  /\ UNCHANGED <<envVars, hashVars, storeVars, disk>>

\* Variant: every declared folder is packed, whether it exists or not.
FilterFoldersKeepAll(exists) == Ascending(Folders, 1)

\* Lines 330-335: the declared folders that exist, in declared order.
FilterFolders(exists) == Ascending({f \in Folders : exists[f]}, 1)

\* Lines 325-360: the existence checks resolve; tar.create starts.
ExistsResolve ==
  /\ pc = "exists"
  /\ LET outputFoldersThatExist == [f \in Folders |-> disk[f] # "absent"]
     IN filteredOutputFolders' = FilterFolders(outputFoldersThatExist)
  /\ terminal' = Append(terminal, Line("verbose", "Caching build output folders"))
  /\ ioLog' = Append(ioLog, IO("pack", <<>>, filteredOutputFolders'))
  /\ pc' = "packing"
  /\ UNCHANGED <<envVars, hashVars, keyVars, storeVars, hashRequests, disk, op, returned,
                 cacheEntryBuffer, foundInLocalCache, setLocalCacheEntryPromise,
                 setCloudCacheEntryPromise, extractTarPromise, pendingDeletes,
                 deletedFolders, encounteredTarErrors>>

\* Lines 345-353: the filter is called on an entry that is a symbolic link.
TarFilterSymbolicLink ==
  /\ pc = "packing"
  /\ filteredOutputFolders # <<>>
  /\ ~encounteredTarErrors
  /\ encounteredTarErrors' = TRUE
  /\ terminal' = Append(terminal,
       Line("error", "Unable to include in build cache. It is a symbolic link."))
  /\ UNCHANGED <<envVars, hashVars, keyVars, storeVars, hashRequests, disk, pc, op,
                 returned, cacheEntryBuffer, foundInLocalCache,
                 setLocalCacheEntryPromise, setCloudCacheEntryPromise,
                 extractTarPromise, pendingDeletes, deletedFolders,
                 filteredOutputFolders, ioLog>>

\* Variant: the cloud store is written whenever one is configured.
ShouldWriteCloudIfConfigured == cloudConfigured

\* Lines 371-372: _cloudBuildCacheProvider?.isCacheWriteAllowed === true.
ShouldWriteCloud == cloudConfigured /\ isCacheWriteAllowed = TRUE

\* Lines 361-374 and 407-410: the stream ends and the buffer is complete.
TarStreamEnd ==
  /\ pc = "packing"
  /\ cacheEntryBuffer' = Some(filteredOutputFolders)
  /\ IF encounteredTarErrors
     THEN /\ pc' = "returned"
          /\ returned' = "false"
          /\ UNCHANGED <<setLocalCacheEntryPromise, setCloudCacheEntryPromise, ioLog>>
     ELSE /\ setLocalCacheEntryPromise' = "pending"
          /\ setCloudCacheEntryPromise' =
               IF ShouldWriteCloud THEN "pending" ELSE "undefined"
          /\ ioLog' = ioLog
               \o <<IO("localSet", cacheId.v, filteredOutputFolders)>>
               \o (IF ShouldWriteCloud
                   THEN <<IO("cloudSet", cacheId.v, filteredOutputFolders)>>
                   ELSE <<>>)
          /\ pc' = "joiningSet"
          /\ UNCHANGED returned
  /\ UNCHANGED <<envVars, hashVars, keyVars, storeVars, hashRequests, disk, op,
                 foundInLocalCache, extractTarPromise, pendingDeletes,
                 deletedFolders, filteredOutputFolders, encounteredTarErrors,
                 terminal>>

\* Lines 361 and 406: the stream reports 'error'; the awaited promise rejects.
TarStreamError ==
  /\ pc = "packing"
  /\ pc' = "returned"
  /\ returned' = "rejected"
  /\ UNCHANGED <<envVars, hashVars, keyVars, storeVars, callVars, hashRequests, disk, op,
                 terminal, ioLog>>

\* Variant: the result is the local write's alone.
SetOutcomeLocalOnly(updateCloudCacheSuccess, updateLocalCacheSuccess) ==
  [line |->
     IF updateLocalCacheSuccess THEN Line("info", "Successfully set cache entry.")
     ELSE Line("warning", "Unable to set local cache entry."),
   value |-> updateLocalCacheSuccess]

\* Lines 388-399, from the two awaited values.
SetOutcome(updateCloudCacheSuccess, updateLocalCacheSuccess) ==
  LET success == updateCloudCacheSuccess /\ updateLocalCacheSuccess
  IN [line |->
        IF success THEN Line("info", "Successfully set cache entry.")
        ELSE IF ~updateLocalCacheSuccess /\ updateCloudCacheSuccess
        THEN Line("warning", "Unable to set local cache entry.")
        ELSE IF updateLocalCacheSuccess /\ ~updateCloudCacheSuccess
        THEN Line("warning", "Unable to set cloud cache entry.")
        ELSE Line("warning", "Unable to set both cloud and local cache entries."),
      value |-> success]

\* Lines 376-399: every write that was started has resolved.
SetReturns ==
  /\ pc = "joiningSet"
  /\ setLocalCacheEntryPromise # "pending"
  /\ setCloudCacheEntryPromise # "pending"
  /\ LET o == SetOutcome(setCloudCacheEntryPromise # "false",
                         setLocalCacheEntryPromise = "true")
     IN /\ terminal' = Append(terminal, o.line)
        /\ returned' = IF o.value THEN "true" ELSE "false"
  /\ pc' = "returned"
  /\ UNCHANGED <<envVars, hashVars, keyVars, storeVars, callVars, hashRequests, disk, op,
                 ioLog>>

\* ---------------------------------------------------------- specifications
Next ==
  \/ TryRestoreFromCacheAsync
  \/ LocalGetResolves
  \/ CloudGetResolves
  \/ DeleteFolderResolves
  \/ DeleteFolderRejects
  \/ StartExtract
  \/ ExtractResolves
  \/ ExtractRejects
  \/ LocalSetResolves
  \/ CloudSetResolves
  \/ RestoreRejects
  \/ RestoreReturns
  \/ TrySetCacheEntryAsync
  \/ ExistsResolve
  \/ TarFilterSymbolicLink
  \/ TarStreamEnd
  \/ TarStreamError
  \/ SetReturns

Spec == Init /\ [][Next]_vars

\* Line 134: the state tokens come from PackageChangeAnalyzer, outside the
\* orchestrator; they follow the working tree and change at any time.
ProjectStateChanges ==
  /\ projectStateHash' \in StateHashes \ {projectStateHash}
  /\ UNCHANGED <<hashVars, projectRelativeFolder, projectBuildDeps,
                 localDependencyProjects, cloudConfigured, isCacheWriteAllowed, keyVars, storeVars, callVars, hashRequests, disk, pc, op,
                 returned, terminal, ioLog>>

\* The protocol while the state tokens change.
NextMemo ==
  \/ Next
  \/ ProjectStateChanges

SpecMemo == Init /\ [][NextMemo]_vars

\* Lines 218-221: the warning that names the input files under output folders.
UnableToUseBuildCache(inputOutputFiles) ==
  [severity |-> "warning",
   text |-> "Unable to use build cache. The following files are used to calculate project state and are considered project output: ",
   files |-> inputOutputFiles]

\* Lines 183-194: tryGetProjectBuildCache.
TryGetProjectBuildCache ==
  /\ pc = "start"
  /\ IF ~projectBuildDeps.defined
     THEN /\ pc' = "noInstance"
          /\ terminal' = terminal
     ELSE LET v == ValidateProject(projectRelativeFolder, projectOutputFolderNames,
                                   projectBuildDeps.v)
          IN IF ~v.ok
             THEN /\ terminal' = Append(terminal,
                                        UnableToUseBuildCache(v.inputOutputFiles))
                  /\ pc' = "noInstance"
             ELSE /\ terminal' = terminal
                  /\ pc' = "idle"
  /\ UNCHANGED <<envVars, hashVars, keyVars, storeVars, callVars, hashRequests, disk, op,
                 returned, ioLog>>

\* Any options: the project folder, the files of the project state.
InitEligible ==
  /\ derivations = <<>>
  /\ hashUpdates = <<>>
  /\ projectRelativeFolder \in RelativeFolders
  /\ projectBuildDeps \in ProjectBuildDeps
  /\ localDependencyProjects = ChainGraph
  /\ projectStateHash \in StateHashes
  /\ cloudConfigured = FALSE
  /\ isCacheWriteAllowed = FALSE
  /\ localStore = {}
  /\ cloudStore = {}
  /\ disk = [f \in Folders |-> "built"]
  /\ cacheIdCannotBeCalculated = FALSE
  /\ cacheId = None
  /\ sortedProjectStates = <<>>
  /\ hashRequests = <<>>
  /\ pc = "start"
  /\ op = "none"
  /\ returned = "none"
  /\ cacheEntryBuffer = None
  /\ foundInLocalCache = FALSE
  /\ setLocalCacheEntryPromise = "undefined"
  /\ setCloudCacheEntryPromise = "undefined"
  /\ extractTarPromise = "undefined"
  /\ pendingDeletes = {}
  /\ deletedFolders = {}
  /\ filteredOutputFolders = <<>>
  /\ encounteredTarErrors = FALSE
  /\ terminal = <<>>
  /\ ioLog = <<>>

\* The factory, then the two public operations up to their first await.
NextEligible ==
  \/ TryGetProjectBuildCache
  \/ TryRestoreFromCacheAsync
  \/ TrySetCacheEntryAsync

SpecEligible == InitEligible /\ [][NextEligible]_vars

\* State tokens of letters, none with the delimiter: "a", "b", "c", "ab", "bc".
Tokens == {<<97>>, <<98>>, <<99>>, <<97, 98>>, <<98, 99>>}

\* Commands: "build", "b", "b|".
Commands == {command, <<98>>, <<98, hashDelimiter>>}

\* The inputs of lines 155-167: the output folder names, the command and the
\* state tokens in the order of the traversal.
Derivations ==
  [folders : OrderedSets({FolderName(f) : f \in Folders}, NumFolders),
   cmd : Commands,
   states : UNION {[1..n -> Tokens] : n \in 0..MaxTokens}]

\* How often each token occurs.
Occurrences(states) ==
  [t \in Tokens |-> Cardinality({i \in 1..Len(states) : states[i] = t})]

\* Two sets of inputs that differ in the command only, in the output folder
\* list only, or in the state tokens only.
DifferInOne(a, b) ==
  \/ a.cmd # b.cmd /\ a.folders = b.folders /\ a.states = b.states
  \/ a.folders # b.folders /\ a.cmd = b.cmd /\ a.states = b.states
  \/ /\ Occurrences(a.states) # Occurrences(b.states)
     /\ a.cmd = b.cmd
     /\ a.folders = b.folders

InitHash ==
  /\ derivations \in {d \in Derivations \X Derivations : DifferInOne(d[1], d[2])}
  /\ hashUpdates = <<>>
  /\ ValidOptions
  /\ localDependencyProjects = ChainGraph
  /\ projectStateHash = [p \in Projects |-> Some(StateHashOf(p))]
  /\ cloudConfigured = FALSE
  /\ isCacheWriteAllowed = FALSE
  /\ localStore = {}
  /\ cloudStore = {}
  /\ disk = [f \in Folders |-> "built"]
  /\ InitCall

\* Lines 155-167 on each set of inputs: sort, then feed the hash.
UpdateHash ==
  /\ derivations # <<>>
  /\ hashUpdates = <<>>
  /\ hashUpdates' = [i \in 1..2 |->
                       HashInput(derivations[i].folders, derivations[i].cmd,
                                 Sort(derivations[i].states))]
  /\ UNCHANGED <<envVars, derivations, keyVars, storeVars, callVars, hashRequests,
                 disk, pc, op, returned, terminal, ioLog>>

NextHash == UpdateHash

SpecHash == InitHash /\ [][NextHash]_vars

\* The derivation alone: the two public operations up to their first await.
NextKey ==
  \/ TryRestoreFromCacheAsync
  \/ TrySetCacheEntryAsync

SpecKey == InitKey /\ [][NextKey]_vars

\* ------------------------------------------------------------- properties
Invoked(name) == {i \in 1..Len(ioLog) : ioLog[i].op = name}

Wrote(severity, text) == \E i \in 1..Len(terminal) : terminal[i] = Line(severity, text)

\* The call in progress or just finished is a restore that hit in the cloud
\* store after a local miss.
RemoteOnlyHit == op = "restore" /\ ~foundInLocalCache /\ cacheEntryBuffer.defined

\* The projects reachable from a set of projects through the dependency Sets.
RECURSIVE Reach(_)
Reach(S) ==
  LET T == S \cup UNION {Range(localDependencyProjects[p]) : p \in S}
  IN IF T = S THEN S ELSE Reach(T)

Closure == Reach({project})

\* The dependency graphs that differ from the current one only in the
\* iteration order of the dependency Sets.
Reorderings ==
  {g \in Graphs : \A p \in Projects :
     Range(g[p]) = Range(localDependencyProjects[p])}

\* C1: in a restore call in which the local store returned an entry, the
\* cloud store's get is not invoked, whatever the cloud store holds.
C1_LocalHitSkipsCloud ==
  (op = "restore" /\ foundInLocalCache) => Invoked("cloudGet") = {}

\* A restore that hit locally has returned while a cloud store is configured
\* and holds an entry under the same id.
C1_Witness ==
  /\ op = "restore"
  /\ foundInLocalCache
  /\ pc = "returned"
  /\ returned = "true"
  /\ cloudConfigured
  /\ StoreGet(cloudStore, cacheId.v).defined

\* C2: once a restore has handed the archive to tar.extract, the deletion of
\* every declared output folder has completed: nothing is unpacked while a
\* deletion is pending or after one failed.
C2_ClearBeforeUnpack ==
  (op = "restore" /\ (Invoked("unpack") # {} \/ extractTarPromise # "undefined"))
    => (deletedFolders = Folders /\ pendingDeletes = {})

\* A restore from the cloud store has unpacked its archive into a folder.
C2_Witness ==
  /\ RemoteOnlyHit
  /\ extractTarPromise = "true"
  /\ \E f \in Folders : disk[f] = "restored"

\* C3 as stated: after a restore that missed locally and hit in the cloud
\* store returns, the local store's set was invoked exactly once with the id
\* and the blob the cloud store returned, and the local store holds that
\* entry.
C3_BackfillAlwaysStored ==
  (RemoteOnlyHit /\ pc = "returned" /\ returned \in {"true", "false"})
    => /\ Cardinality(Invoked("localSet")) = 1
       /\ \A i \in Invoked("localSet") :
            ioLog[i] = IO("localSet", cacheId.v, cacheEntryBuffer.v)
       /\ StoreGet(localStore, cacheId.v) = cacheEntryBuffer

\* C3 amended: a restore that missed locally and hit in the cloud store
\* invokes the local store's set exactly once, with the id and the blob the
\* cloud store returned; the local store holds that entry whenever that set
\* has reported success.
C3_BackfillStoredOnSuccess ==
  RemoteOnlyHit
    => /\ Cardinality(Invoked("localSet")) = 1
       /\ \A i \in Invoked("localSet") :
            ioLog[i] = IO("localSet", cacheId.v, cacheEntryBuffer.v)
       /\ setLocalCacheEntryPromise # "undefined"
       /\ setLocalCacheEntryPromise = "true"
            => StoreGet(localStore, cacheId.v) = cacheEntryBuffer

\* A restore that hit only in the cloud store has returned, its write to the
\* local store succeeded, and the local store held nothing or another blob
\* before (the cloud store's blob is now in it).
C3_Witness ==
  /\ RemoteOnlyHit
  /\ pc = "returned"
  /\ returned = "true"
  /\ setLocalCacheEntryPromise = "true"
  /\ StoreGet(localStore, cacheId.v) = StoreGet(cloudStore, cacheId.v)

\* C4: a restore whose extraction stream reported an error ends by returning
\* false, not by raising.
C4_ExtractionFailureReturnsFalse ==
  (op = "restore" /\ extractTarPromise = "rejected" /\ pc = "returned")
    => returned = "false"

\* C5: a restore that hit returns the extraction's outcome alone; when the
\* entry came from the cloud store, the extraction succeeded and the write to
\* the local store reported failure, it returns true and writes the warning
\* about the local cache.
C5_ReturnsExtractionOutcome ==
  (op = "restore" /\ cacheEntryBuffer.defined /\ pc = "returned"
     /\ returned # "rejected")
    => /\ (returned = "true") <=> (extractTarPromise = "true")
       /\ Wrote("warning",
                "An error occurred updating the local cache with the cloud cache data.")
            <=> (setLocalCacheEntryPromise = "false")
       /\ (setLocalCacheEntryPromise = "false" /\ extractTarPromise = "true")
            => returned = "true"

\* A restore from the cloud store returned true although its write to the
\* local store reported failure.
C5_Witness ==
  /\ RemoteOnlyHit
  /\ pc = "returned"
  /\ returned = "true"
  /\ setLocalCacheEntryPromise = "false"
  /\ Wrote("warning",
           "An error occurred updating the local cache with the cloud cache data.")

\* C6: once the cache id has been requested, it is absent whenever some
\* project of the dependency closure (the project itself included, at any
\* depth) has no state token.
C6_AbsentTokenInClosure ==
  (op # "none" /\ \E p \in Closure : ~projectStateHash[p].defined)
    => (~cacheId.defined /\ cacheIdCannotBeCalculated /\ returned = "false")

\* The id is absent because of a project that is in the closure but is
\* neither the project nor one of its direct dependencies.
C6_Witness ==
  /\ op # "none"
  /\ ~cacheId.defined
  /\ \A p \in {project} \cup Range(localDependencyProjects[project]) :
       projectStateHash[p].defined
  /\ \E p \in Closure : ~projectStateHash[p].defined

\* C7: the derived cache id is the same for every iteration order of the
\* dependency Sets of the same graph.
C7_OrderIndependent ==
  cacheId.defined
    => \A g \in Reorderings : DeriveCacheId(g, projectStateHash).id = cacheId

\* C8: the derivation fetches the token of each project of the closure once:
\* the tokens fed to the hash are as many as the projects of the closure.
C8_OneTokenPerProject ==
  cacheId.defined
    => /\ Len(sortedProjectStates) = Cardinality(Closure)
       /\ NoDup(hashRequests)

\* C9: a public operation that gets no cache id writes a warning and returns
\* false without invoking any store or file system operation.
C9_AbsentIdNoIO ==
  (op # "none" /\ ~cacheId.defined)
    => /\ pc = "returned"
       /\ returned = "false"
       /\ terminal = <<Line("warning", "Unable to get cache ID. Ensure Git is installed.")>>
       /\ ioLog = <<>>
       /\ pendingDeletes = {}
       /\ setLocalCacheEntryPromise = "undefined"
       /\ setCloudCacheEntryPromise = "undefined"
       /\ extractTarPromise = "undefined"

\* A store operation returned false for want of a cache id.
C9_Witness ==
  /\ op = "set"
  /\ cacheIdCannotBeCalculated
  /\ returned = "false"
  /\ ioLog = <<>>

\* C10: a store operation whose packing met a symbolic link returns false
\* and invokes set on neither store.
C10_SymbolicLinkReturnsFalse ==
  (op = "set" /\ encounteredTarErrors /\ pc = "returned")
    => /\ returned = "false"
       /\ Invoked("localSet") = {}
       /\ Invoked("cloudSet") = {}


\* The store operation in progress or just finished got a cache id and a
\* complete archive without meeting a symbolic link.
PackedForStore == op = "set" /\ cacheEntryBuffer.defined /\ ~encounteredTarErrors

\* C11: a store operation with a cache id and a successful pack invokes the
\* local store's set once with the id and the packed blob, and invokes the
\* cloud store's set (once, with the same id and blob) exactly when a cloud
\* store is configured and its write flag is true.
C11_WritesLocalAndAllowedCloud ==
  PackedForStore
    => /\ Cardinality(Invoked("localSet")) = 1
       /\ \A i \in Invoked("localSet") :
            ioLog[i] = IO("localSet", cacheId.v, cacheEntryBuffer.v)
       /\ setLocalCacheEntryPromise # "undefined"
       /\ (Invoked("cloudSet") # {}) <=> (cloudConfigured /\ isCacheWriteAllowed)
       /\ (setCloudCacheEntryPromise # "undefined")
            <=> (cloudConfigured /\ isCacheWriteAllowed)
       /\ Cardinality(Invoked("cloudSet")) <= 1
       /\ \A i \in Invoked("cloudSet") :
            ioLog[i] = IO("cloudSet", cacheId.v, cacheEntryBuffer.v)

\* A store operation returned true with a read-only cloud store configured:
\* only the local store was written.
C11_Witness ==
  /\ PackedForStore
  /\ pc = "returned"
  /\ returned = "true"
  /\ cloudConfigured
  /\ ~isCacheWriteAllowed
  /\ Invoked("cloudSet") = {}
  /\ StoreGet(localStore, cacheId.v) = cacheEntryBuffer

\* C12: a store operation that started its writes returns true exactly when
\* the local write succeeded and the cloud write succeeded or was not
\* attempted.
C12_LocalAndCloudSuccess ==
  (PackedForStore /\ pc = "returned" /\ returned # "rejected")
    => /\ (returned = "true")
            <=> (setLocalCacheEntryPromise = "true"
                 /\ setCloudCacheEntryPromise \in {"undefined", "true"})
       /\ returned = "true" => setLocalCacheEntryPromise = "true"

\* A store operation returned false because only its cloud write failed.
C12_Witness ==
  /\ PackedForStore
  /\ pc = "returned"
  /\ returned = "false"
  /\ setLocalCacheEntryPromise = "true"
  /\ setCloudCacheEntryPromise = "false"
  /\ Wrote("warning", "Unable to set cloud cache entry.")


\* C17: when a public operation that had started two concurrent operations
\* (extraction and local write-back in a restore, the two writes in a store)
\* has finished, both have completed and each failure has been reported.
C17_WaitsForBoth ==
  (pc = "returned"
     /\ \/ op = "restore" /\ extractTarPromise # "undefined"
               /\ setLocalCacheEntryPromise # "undefined"
        \/ op = "set" /\ setLocalCacheEntryPromise # "undefined"
               /\ setCloudCacheEntryPromise # "undefined")
    => /\ extractTarPromise # "pending"
       /\ setLocalCacheEntryPromise # "pending"
       /\ setCloudCacheEntryPromise # "pending"
       /\ (op = "restore" /\ setLocalCacheEntryPromise = "false")
            => Wrote("warning",
                     "An error occurred updating the local cache with the cloud cache data.")
       /\ (op = "set" /\ setLocalCacheEntryPromise = "false"
              /\ setCloudCacheEntryPromise = "true")
            => Wrote("warning", "Unable to set local cache entry.")
       /\ (op = "set" /\ setLocalCacheEntryPromise = "true"
              /\ setCloudCacheEntryPromise = "false")
            => Wrote("warning", "Unable to set cloud cache entry.")
       /\ (op = "set" /\ setLocalCacheEntryPromise = "false"
              /\ setCloudCacheEntryPromise = "false")
            => Wrote("warning", "Unable to set both cloud and local cache entries.")


\* C18: a store operation hands tar.create exactly the declared output
\* folders that exist, in declared order, and a missing folder does not by
\* itself make the operation return false.
C18_PacksExistingFolders ==
  /\ (op = "set" /\ Invoked("pack") # {})
       => /\ \A i \in Invoked("pack") : ioLog[i].arg = filteredOutputFolders
          /\ Range(filteredOutputFolders) = {f \in Folders : disk[f] # "absent"}
          /\ \A i, j \in 1..Len(filteredOutputFolders) :
               i < j => filteredOutputFolders[i] < filteredOutputFolders[j]
  /\ (op = "set" /\ pc = "returned" /\ returned = "false")
       => \/ ~cacheId.defined
          \/ encounteredTarErrors
          \/ setLocalCacheEntryPromise = "false"
          \/ setCloudCacheEntryPromise = "false"

\* A store operation returned true having packed the one folder that exists
\* and skipped a declared folder that does not.
C18_Witness ==
  /\ op = "set"
  /\ pc = "returned"
  /\ returned = "true"
  /\ \E f \in Folders : disk[f] = "absent"
  /\ \E f \in Folders : disk[f] # "absent"
  /\ StoreGet(localStore, cacheId.v) = Some(filteredOutputFolders)

\* C19: a restore that returned false has invoked no deletion, no unpacking
\* and no write to a store, and no output folder was deleted.
C19_FalseRestoreTouchesNothing ==
  (op = "restore" /\ pc = "returned" /\ returned = "false")
    => /\ Invoked("delete") = {}
       /\ Invoked("unpack") = {}
       /\ Invoked("localSet") = {}
       /\ Invoked("cloudSet") = {}
       /\ deletedFolders = {}
       /\ pendingDeletes = {}
       /\ extractTarPromise = "undefined"
       /\ setLocalCacheEntryPromise = "undefined"
       /\ ~cacheEntryBuffer.defined

\* A restore missed in both stores and returned false with a built output
\* folder still in place.
C19_Witness ==
  /\ op = "restore"
  /\ pc = "returned"
  /\ returned = "false"
  /\ cacheId.defined
  /\ cloudConfigured
  /\ Invoked("cloudGet") # {}
  /\ \E f \in Folders : disk[f] = "built"

\* C20: a restore never invokes the cloud store's set; it invokes the local
\* store's set only after a local miss and a cloud hit, and not at all after
\* a local hit.
C20_RestoreWritesOnlyBackfill ==
  op = "restore"
    => /\ Invoked("cloudSet") = {}
       /\ setCloudCacheEntryPromise = "undefined"
       /\ foundInLocalCache
            => (Invoked("localSet") = {} /\ setLocalCacheEntryPromise = "undefined")
       /\ (Invoked("localSet") # {} \/ setLocalCacheEntryPromise # "undefined")
            => RemoteOnlyHit

\* A restore that hit locally returned true without a write, with a
\* writable cloud store configured.
C20_Witness ==
  /\ op = "restore"
  /\ foundInLocalCache
  /\ pc = "returned"
  /\ returned = "true"
  /\ cloudConfigured
  /\ isCacheWriteAllowed
  /\ Invoked("localSet") = {}


\* C15: on every dependency graph, cyclic ones included, the traversal loop
\* ends: a derivation fetches at most two tokens per project of the closure
\* (one for the project itself) and leaves the loop.
C15_TraversalEnds ==
  /\ DeriveCacheId(localDependencyProjects, projectStateHash).ended
  /\ op # "none" => Len(hashRequests) <= 2 * Cardinality(Closure) - 1

\* A cache id was derived for a project that depends on itself and on two
\* projects that depend on each other.
C15_Witness ==
  /\ op # "none"
  /\ cacheId.defined
  /\ hashRequests # <<>>
  /\ project \in Range(localDependencyProjects[project])
  /\ \E p, q \in Closure \ {project} :
       /\ p # q
       /\ p \in Range(localDependencyProjects[q])
       /\ q \in Range(localDependencyProjects[p])


\* C16: a derived cache id stays the id of the instance and an id that could
\* not be calculated stays absent; from then on a call of
\* tryRestoreFromCacheAsync or trySetCacheEntryAsync asks for no state token
\* and works with the remembered id, whatever the tokens are by then.
C16_KeyStateFinal ==
  [][/\ cacheId.defined =>
          /\ cacheId' = cacheId
          /\ ~cacheIdCannotBeCalculated'
     /\ cacheIdCannotBeCalculated =>
          /\ cacheIdCannotBeCalculated'
          /\ ~cacheId'.defined
     /\ ~(cacheId.defined /\ cacheIdCannotBeCalculated)
     /\ (cacheId.defined \/ cacheIdCannotBeCalculated)
          /\ (TryRestoreFromCacheAsync \/ TrySetCacheEntryAsync)
          => hashRequests' = <<>>
     /\ cacheId.defined /\ TryRestoreFromCacheAsync
          => ioLog' = <<IO("localGet", cacheId.v, <<>>)>>
     /\ cacheIdCannotBeCalculated
          /\ (TryRestoreFromCacheAsync \/ TrySetCacheEntryAsync)
          => ioLog' = <<>> /\ pc' = "returned"]_vars

\* A restore started with the remembered id, without a token request, while
\* the tokens of now give another id.
C16_Witness ==
  /\ op = "restore"
  /\ pc = "localGet"
  /\ hashRequests = <<>>
  /\ cacheId.defined
  /\ ioLog = <<IO("localGet", cacheId.v, <<>>)>>
  /\ DeriveCacheId(localDependencyProjects, projectStateHash).id # cacheId


\* C13: tryGetProjectBuildCache refuses a project whose state files are known
\* exactly when one of them starts with "<project folder, with slashes>/
\* <output folder>/"; it then writes a warning that names these files and
\* returns no instance, so that no cache id is derived and no store or folder
\* is touched. Without such a file an instance is made and nothing is written.
C13_IneligibleIffOutputIsInput ==
  LET folder == [i \in DOMAIN projectRelativeFolder |->
                   IF projectRelativeFolder[i] = Backslash THEN Slash
                   ELSE projectRelativeFolder[i]]
      UnderOutput(file) ==
        \E f \in Folders :
          StartsWith(file, folder \o <<Slash>> \o FolderName(f) \o <<Slash>>)
      offending == {file \in Range(projectBuildDeps.v) : UnderOutput(file)}
  IN pc # "start" /\ projectBuildDeps.defined =>
       /\ pc = "noInstance" <=> offending # {}
       /\ offending # {} =>
            /\ Len(terminal) = 1
            /\ terminal[1].severity = "warning"
            /\ terminal[1] = UnableToUseBuildCache(terminal[1].files)
            /\ Range(terminal[1].files) = offending
            /\ op = "none"
            /\ ioLog = <<>>
            /\ hashRequests = <<>>
            /\ ~cacheId.defined
            /\ ~cacheIdCannotBeCalculated
            /\ localStore = {} /\ cloudStore = {}
       /\ offending = {} /\ op = "none" => terminal = <<>>

\* A project in folder "a\b" whose state files have "a/b/lib/x" among them,
\* next to files that only resemble an output folder, was refused.
C13_Witness ==
  /\ pc = "noInstance"
  /\ projectBuildDeps.defined
  /\ Backslash \in Range(projectRelativeFolder)
  /\ Len(projectBuildDeps.v) >= 3
  /\ Len(terminal) = 1
  /\ Len(terminal[1].files) = 1
  /\ Len(terminal[1].files) < Len(projectBuildDeps.v)


\* C14: two derivations that differ in the command only, in the list of output
\* folders only, or in the state tokens only (tokens without the delimiter)
\* feed different byte sequences to the hash; so do the token lists
\* ["ab","c"] and ["a","bc"].
C14_HashInputSensitive ==
  /\ hashUpdates # <<>> /\ DifferInOne(derivations[1], derivations[2])
       => hashUpdates[1] # hashUpdates[2]
  /\ HashInput(projectOutputFolderNames, command, Sort(<< <<97, 98>>, <<99>> >>))
       # HashInput(projectOutputFolderNames, command, Sort(<< <<97>>, <<98, 99>> >>))

\* The hash was fed for the token lists ["ab","c"] and ["a","bc"] under one
\* command and one list of output folders.
C14_Witness ==
  /\ hashUpdates # <<>>
  /\ derivations[1].states = << <<97, 98>>, <<99>> >>
  /\ derivations[2].states = << <<97>>, <<98, 99>> >>
  /\ derivations[1].cmd = derivations[2].cmd
  /\ derivations[1].folders = derivations[2].folders
  /\ hashUpdates[1] # hashUpdates[2]

====
